---- MODULE Spec2Model ----
(***************************************************************************)
(* Model of src/app.py: a Flask application with one table (FirstApp), one *)
(* validated form (UserForm) and the routes /, /search/<name>,             *)
(* /set_session and /home, plus the 404 and 500 error handlers.            *)
(*                                                                         *)
(* Text values are sequences of one-character strings, so that strip(),    *)
(* escape(), the validators and the lengths 2, 100 and 200 are computed on *)
(* the characters exactly as the code computes them.                       *)
(***************************************************************************)
EXTENDS Integers, Sequences, FiniteSets, TLC

VARIABLES
  table,     \* the rows of the FirstApp table
  session,   \* the client's session cookie
  req,       \* the request being answered
  resp,      \* the response to it
  clients,   \* concurrent requests to "/": where each one stands
  writer     \* the client holding the storage engine's write lock, or 0

vars == <<table, session, req, resp, clients, writer>>

(***************************************************************************)
(* Characters                                                              *)
(***************************************************************************)

\* [A-Za-z] of the Regexp validators (the letters the inputs below use).
Letters == {"a", "b", "g", "l", "m", "p", "t"}

Digits == {"1", "3", "4", "9"}

\* Characters removed by str.strip() with no argument.
Whitespace == {" ", "\n"}

\* Characters email syntax allows in an unquoted local part besides "."
\* (the atext of the Email() validator): they include "&" and "'".
AText == Letters \cup Digits \cup {"&", "'", "#", "-"}

\* Characters allowed in a domain label.
LabelChars == Letters \cup Digits \cup {"-"}

(***************************************************************************)
(* Program constants                                                       *)
(***************************************************************************)

MinNameLen == 2

MaxNameLen == 100

MaxEmailLen == 200

\* Limits of the email syntax checked by Email(): local part, label, address.
MaxLocalLen == 64

MaxLabelLen == 63

MaxAddressLen == 254

\* app.run(debug=True)
Debug == TRUE

\* Flask: PROPAGATE_EXCEPTIONS is unset, so exceptions propagate iff the
\* application runs in debug (or testing) mode.
PropagateExceptions == Debug

(***************************************************************************)
(* Bounds of the model                                                     *)
(***************************************************************************)

\* Largest number of rows the table is allowed to grow to.
MaxRows == 2

\* Number of concurrent clients in SpecConc.
NumClients == 2

(***************************************************************************)
(* String helpers                                                          *)
(***************************************************************************)

Rep(c, n) == [i \in 1..n |-> c]

HasChar(s, c) == \E i \in 1..Len(s) : s[i] = c

CountChar(s, c) == Cardinality({i \in 1..Len(s) : s[i] = c})

AllIn(s, S) == \A i \in 1..Len(s) : s[i] \in S

\* str.strip(): drop leading and trailing whitespace.
Strip(s) ==
  LET kept == {i \in 1..Len(s) : s[i] \notin Whitespace}
  IN  IF kept = {} THEN <<>>
      ELSE SubSeq(s, CHOOSE i \in kept : \A j \in kept : i <= j,
                     CHOOSE i \in kept : \A j \in kept : i >= j)

\* markupsafe.escape on one character.
EscapeChar(c) ==
  CASE c = "&" -> <<"&", "a", "m", "p", ";">>
    [] c = "<" -> <<"&", "l", "t", ";">>
    [] c = ">" -> <<"&", "g", "t", ";">>
    [] c = "'" -> <<"&", "#", "3", "9", ";">>
    [] c = "\"" -> <<"&", "#", "3", "4", ";">>
    [] OTHER -> <<c>>

\* markupsafe.escape(s): every character replaced by its escaped form
\* (computed by halves, which keeps the recursion shallow on long text).
RECURSIVE Escape(_)
Escape(s) ==
  IF s = <<>> THEN <<>>
  ELSE IF Len(s) = 1 THEN EscapeChar(s[1])
  ELSE LET h == Len(s) \div 2
       IN  Escape(SubSeq(s, 1, h)) \o Escape(SubSeq(s, h + 1, Len(s)))

(***************************************************************************)
(* Validators of UserForm                                                  *)
(***************************************************************************)

\* DataRequired(): the data is truthy and, for text, not blank after strip().
DataRequired(s) == s # <<>> /\ Strip(s) # <<>>

LengthOff(s, min, max) == Len(s) >= min /\ Len(s) < max

\* Length(min, max): min <= len(data) <= max, on the data as submitted.
Length(s, min, max) == Len(s) >= min /\ Len(s) <= max

\* Regexp(r'^[A-Za-z ]+$'), applied with re.match: one or more letters or
\* spaces, then the end of the string; "$" also matches just before a
\* newline that ends the string.
Regexp(s) ==
  LET core == IF s # <<>> /\ s[Len(s)] = "\n"
                THEN SubSeq(s, 1, Len(s) - 1)
                ELSE s
  IN  core # <<>> /\ AllIn(core, Letters \cup {" "})

\* No run of more than n characters without a "." in s.
LabelsAtMost(s, n) ==
  \A i \in 1..(Len(s) - n) : \E j \in i..(i + n) : s[j] = "."

\* A dot-separated sequence of non-empty atoms: no leading, trailing or
\* doubled ".".
DotAtom(s) ==
  /\ s # <<>>
  /\ s[1] # "."
  /\ s[Len(s)] # "."
  /\ \A i \in 1..(Len(s) - 1) : ~(s[i] = "." /\ s[i + 1] = ".")

\* No label of the domain starts or ends with "-".
HyphenOK(s) ==
  /\ s[1] # "-"
  /\ s[Len(s)] # "-"
  /\ \A i \in 1..(Len(s) - 1) :
       ~(s[i] = "." /\ s[i + 1] = "-") /\ ~(s[i] = "-" /\ s[i + 1] = ".")

\* Email(): the syntax check of the address, local@domain.
Email(s) ==
  /\ CountChar(s, "@") = 1
  /\ Len(s) <= MaxAddressLen
  /\ LET at == CHOOSE i \in 1..Len(s) : s[i] = "@"
         local == SubSeq(s, 1, at - 1)
         domain == SubSeq(s, at + 1, Len(s))
     IN  /\ DotAtom(local)
         /\ AllIn(local, AText \cup {"."})
         /\ Len(local) <= MaxLocalLen
         /\ DotAtom(domain)
         /\ AllIn(domain, LabelChars \cup {"."})
         /\ HasChar(domain, ".")
         /\ HyphenOK(domain)
         /\ LabelsAtMost(domain, MaxLabelLen)

\* Errors of a name field: DataRequired stops the chain when it fails, the
\* other validators each add their own error.
NameErrors(s) ==
  IF ~DataRequired(s) THEN {"required"}
  ELSE (IF Length(s, MinNameLen, MaxNameLen) THEN {} ELSE {"length"})
       \cup (IF Regexp(s) THEN {} ELSE {"regexp"})

EmailErrors(s) ==
  IF ~DataRequired(s) THEN {"required"}
  ELSE (IF Email(s) THEN {} ELSE {"email"})
       \cup (IF Len(s) <= MaxEmailLen THEN {} ELSE {"length"})

NoForm == [fname |-> <<>>, lname |-> <<>>, email |-> <<>>]

IsSubmittedAlways(method) == TRUE

\* FlaskForm.is_submitted(): the request method carries a submission.
IsSubmitted(method) == method \in {"POST", "PUT", "PATCH", "DELETE"}

\* The data the form binds: the request's form data when submitted.
FormData(method, form) == IF IsSubmitted(method) THEN form ELSE NoForm

FormErrors(form) ==
  [fname |-> NameErrors(form.fname),
   lname |-> NameErrors(form.lname),
   email |-> EmailErrors(form.email)]

NoErrors == [fname |-> {}, lname |-> {}, email |-> {}]

\* form.validate_on_submit()
ValidateOnSubmit(method, form) ==
  IsSubmitted(method) /\ FormErrors(FormData(method, form)) = NoErrors

(***************************************************************************)
(* Storage: the table of FirstApp rows                                     *)
(***************************************************************************)

MaxSno(t) == CHOOSE n \in {r.sno : r \in t} : \A r \in t : r.sno <= n

NextSnoFixed(t) == 1

\* sno is the INTEGER PRIMARY KEY: the engine assigns the largest key + 1.
NextSno(t) == IF t = {} THEN 1 ELSE MaxSno(t) + 1

\* The values index() stores: escape(data.strip()).
Sanitize(s) == Escape(Strip(s))

User(form) ==
  [fname |-> Sanitize(form.fname),
   lname |-> Sanitize(form.lname),
   email |-> Sanitize(form.email)]

Row(sno, user) ==
  [sno |-> sno, fname |-> user.fname, lname |-> user.lname,
   email |-> user.email]

InsertUpsert(t, user) ==
  {r \in t : r.email # user.email} \cup {Row(NextSno(t), user)}

\* db.session.add(user); db.session.commit()
Insert(t, user) == t \cup {Row(NextSno(t), user)}

\* Rows in key order, the order a table scan returns them in.
RECURSIVE Scan(_)
Scan(t) ==
  IF t = {} THEN <<>>
  ELSE LET first == CHOOSE r \in t : \A q \in t : r.sno <= q.sno
       IN  <<first>> \o Scan(t \ {first})

\* FirstApp.query.all()
QueryAll(t) == Scan(t)

SelectInterpolated(t, name) ==
  IF HasChar(name, "'") THEN Scan(t) ELSE Scan({r \in t : r.fname = name})

\* SELECT * FROM first_app WHERE fname = :fname, with name bound to :fname
Select(t, name) == Scan({r \in t : r.fname = name})

(***************************************************************************)
(* Responses                                                               *)
(***************************************************************************)

Response(op, status, body, people, errors, out, trace) ==
  [op |-> op, status |-> status, body |-> body, allpeople |-> people,
   errors |-> errors, out |-> out, traceback |-> trace]

\* internal_error(): the static 500 page.
InternalError(op) ==
  Response(op, 500, "500.html", <<>>, NoErrors, <<>>, FALSE)

\* not_found_error(): the static 404 page.
NotFoundError(op) ==
  Response(op, 404, "404.html", <<>>, NoErrors, <<>>, FALSE)

\* What the caller gets when a handler raises: with exceptions propagating
\* (debug mode) the error handler for 500 is bypassed and the development
\* server answers with its debugger page, which shows the traceback.
Unhandled(op) ==
  IF PropagateExceptions
    THEN Response(op, 500, "debugger", <<>>, NoErrors, <<>>, TRUE)
    ELSE InternalError(op)

Static(text) == [src |-> "static", text |-> text]

Data(text) == [src |-> "data", text |-> text]

NoRecordsFound ==
  <<Static(<<"N", "o", " ", "r", "e", "c", "o", "r", "d", "s", " ",
             "f", "o", "u", "n", "d">>)>>

\* f"{fname} {lname} ({email})<br>"
RowText(r) ==
  <<Data(r.fname), Static(<<" ">>), Data(r.lname), Static(<<" ", "(">>),
    Data(r.email), Static(<<")", "<", "b", "r", ">">>)>>

RECURSIVE RowsText(_)
RowsText(rows) ==
  IF rows = <<>> THEN <<>> ELSE RowText(Head(rows)) \o RowsText(Tail(rows))

SearchOutputEcho(rows, name) ==
  IF rows # <<>> THEN RowsText(rows)
  ELSE NoRecordsFound \o <<Static(<<" ">>), Data(name)>>

\* return output if output else "No records found"
SearchOutput(rows, name) ==
  IF RowsText(rows) # <<>> THEN RowsText(rows) ELSE NoRecordsFound

(***************************************************************************)
(* Inputs                                                                  *)
(***************************************************************************)

Ab == <<"a", "b">>

Ba == <<"b", "a">>

OkEmail == <<"a", "@", "b", ".", "a">>

\* local part of 64, labels of 63, 63 and n characters.
LongEmail(n) ==
  Rep("a", 64) \o <<"@">> \o Rep("b", 63) \o <<".">> \o Rep("a", 63)
    \o <<".">> \o Rep("m", n)

NameInputs ==
  { <<>>,                               \* missing
    <<"a">>,                            \* too short
    Ab,
    <<" ", " ">>,                       \* blank
    <<"a", " ">>,                       \* two characters, one after strip()
    <<" ", "a", "b">>,
    <<"a", "b", "\n">>,                 \* trailing newline
    <<"a", "1">>,                       \* digit
    <<"<", "b", ">">>,                  \* markup
    <<"a", "'", ";">>,                  \* SQL-like
    Rep("a", MaxNameLen),
    Rep("a", MaxNameLen + 1) }

\* Last names: the rejected shapes, and a trailing newline.
LastNameInputs ==
  { <<>>, <<"a">>, <<"<", "b", ">">>, <<"b", "a", "\n">>,
    Rep("a", MaxNameLen + 1) }

EmailInputs ==
  { <<>>,
    OkEmail,
    <<"a", "&", "b", "@", "b", ".", "a">>,
    <<"<", "a", ">", "@", "b", ".", "a">>,
    <<" ", "a", "@", "b", ".", "a">>,
    <<"a", "b">>,
    <<"a", "@", "b">>,
    LongEmail(MaxEmailLen - 193),
    LongEmail(MaxEmailLen - 192) }

\* Submitted forms: each field varied over its inputs with the other two
\* valid, and forms with several invalid fields.
Forms ==
  {[fname |-> f, lname |-> Ba, email |-> OkEmail] : f \in NameInputs}
  \cup {[fname |-> Ab, lname |-> l, email |-> OkEmail] : l \in LastNameInputs}
  \cup {[fname |-> Ab, lname |-> Ba, email |-> e] : e \in EmailInputs}
  \cup {NoForm,
        [fname |-> <<"<", "b", ">">>, lname |-> <<"a">>,
         email |-> <<"a", "b">>]}

\* Requests to "/": every form by POST, and page loads by GET (a GET may
\* carry form data too; the form ignores it).
OkForm == [fname |-> Ab, lname |-> Ba, email |-> OkEmail]

IndexRequests ==
  ({"POST"} \X Forms \X {TRUE})
  \cup ({"GET"} \X {NoForm, OkForm} \X {TRUE})
  \cup ({"POST"} \X {NoForm, OkForm} \X {FALSE})
  \cup ({"GET"} \X {NoForm} \X {FALSE})

SearchNames ==
  { Ab, <<"a">>, <<"b", "b">>, <<"a", "'", ";">>, <<"<", "b", ">">>,
    <<"a", "b", "\n">> }

SearchRequests == (SearchNames \X {TRUE}) \cup ({Ab} \X {FALSE})

(***************************************************************************)
(* Handlers                                                                *)
(***************************************************************************)

\* form = UserForm() followed by form.validate_on_submit(): the form bound
\* to the request, its errors, and the record index() builds from it.
BindForm(method, form) ==
  [submitted |-> IsSubmitted(method),
   data |-> FormData(method, form),
   valid |-> ValidateOnSubmit(method, form),
   errors |-> IF IsSubmitted(method)
                THEN FormErrors(FormData(method, form))
                ELSE NoErrors,
   user |-> User(FormData(method, form))]

\* The bound form of every request to "/" (@@ has the table computed once).
UserForm == [rq \in IndexRequests |-> BindForm(rq[1], rq[2])] @@ <<>>

\* index(): the table after the request. `up` is FALSE when the storage is
\* unavailable, so that every statement sent to it raises.
IndexTable(t, form, up) ==
  IF form.valid /\ up THEN Insert(t, form.user) ELSE t

\* index(): the response.
IndexResponse(t, form, up) ==
  IF ~up THEN Unhandled("index")
  ELSE IF form.valid
    THEN Response("index", 302, "redirect", <<>>, NoErrors, <<>>, FALSE)
    ELSE Response("index", 200, "index.html", QueryAll(t), form.errors,
                  <<>>, FALSE)

\* search_user(name): the response.
SearchResponse(t, name, up) ==
  IF ~up THEN Unhandled("search")
  ELSE Response("search", 200, "text", <<>>, NoErrors,
                SearchOutput(Select(t, name), name), FALSE)

Request(op, method, form, name, up) ==
  [op |-> op, method |-> method, form |-> form, name |-> name, up |-> up]

(***************************************************************************)
(* The application, one request at a time                                  *)
(***************************************************************************)

NoRequest == Request("none", "GET", NoForm, <<>>, TRUE)

NoResponse == Response("none", 200, "none", <<>>, NoErrors, <<>>, FALSE)

Clients == 1..NumClients

Idle == [pc |-> "idle", user |-> User(NoForm), sno |-> 0]

Init ==
  /\ table = {}
  /\ session = [permanent |-> FALSE, user |-> "none"]
  /\ req = NoRequest
  /\ resp = NoResponse
  /\ clients = [p \in Clients |-> Idle]
  /\ writer = 0

\* GET or POST /
Index ==
  \E rq \in IndexRequests :
    LET form == UserForm[rq]
        up == rq[3]
    IN  /\ Cardinality(IndexTable(table, form, up)) <= MaxRows
        /\ table' = IndexTable(table, form, up)
        /\ resp' = IndexResponse(table, form, up)
        /\ req' = Request("index", rq[1], rq[2], <<>>, up)
        /\ UNCHANGED <<session, clients, writer>>

\* GET /search/<name>
SearchUser ==
  \E rq \in SearchRequests :
    /\ resp' = SearchResponse(table, rq[1], rq[2])
    /\ req' = Request("search", "GET", NoForm, rq[1], rq[2])
    /\ UNCHANGED <<table, session, clients, writer>>

\* GET /set_session
SetSession ==
  /\ session' = [permanent |-> TRUE, user |-> "test_user"]
  /\ resp' = Response("set_session", 200, "text", <<>>, NoErrors, <<>>, FALSE)
  /\ req' = Request("set_session", "GET", NoForm, <<>>, TRUE)
  /\ UNCHANGED <<table, clients, writer>>

\* GET /home
Home ==
  /\ resp' = Response("home", 200, "text", <<>>, NoErrors, <<>>, FALSE)
  /\ req' = Request("home", "GET", NoForm, <<>>, TRUE)
  /\ UNCHANGED <<table, session, clients, writer>>

\* A request for any other URL.
NotFound ==
  /\ resp' = NotFoundError("not_found")
  /\ req' = Request("not_found", "GET", NoForm, <<>>, TRUE)
  /\ UNCHANGED <<table, session, clients, writer>>

Next == Index \/ SearchUser \/ SetSession \/ Home \/ NotFound

Spec == Init /\ [][Next]_vars

(***************************************************************************)
(* Concurrent submissions to "/"                                           *)
(*                                                                         *)
(* Each client runs index() for a POST; db.session.commit() sends the      *)
(* INSERT inside a transaction and then commits it.  The storage engine    *)
(* admits one writing transaction at a time; the application takes no lock *)
(* of its own.                                                             *)
(***************************************************************************)

AmpEmail == <<"a", "&", "b", "@", "b", ".", "a">>

ConcRequests ==
  { <<"POST", OkForm, TRUE>>,
    <<"POST", [fname |-> Ab, lname |-> Ba, email |-> AmpEmail], TRUE>>,
    <<"POST", NoForm, TRUE>> }

WriteLockIgnored(w) == TRUE

\* The engine's write lock is free.
WriteLockFree(w) == w = 0

At(p, pc, user, sno) ==
  clients' = [clients EXCEPT ![p] = [pc |-> pc, user |-> user, sno |-> sno]]

\* form = UserForm(); form.validate_on_submit(); user = FirstApp(...)
CValidate(p) ==
  /\ clients[p].pc = "idle"
  /\ \E rq \in ConcRequests :
       IF UserForm[rq].valid
         THEN At(p, "validated", UserForm[rq].user, 0)
         ELSE At(p, "rejected", UserForm[rq].user, 0)
  /\ UNCHANGED <<table, session, req, resp, writer>>

\* db.session.commit(), first half: the INSERT runs in a write transaction
\* and the engine assigns the key.
CInsert(p) ==
  /\ clients[p].pc = "validated"
  /\ WriteLockFree(writer)
  /\ Cardinality(table) < MaxRows
  /\ writer' = p
  /\ At(p, "inserted", clients[p].user, NextSno(table))
  /\ UNCHANGED <<table, session, req, resp>>

\* db.session.commit(), second half: the transaction commits, the row
\* becomes part of the table, the lock is released; then redirect('/').
CCommit(p) ==
  /\ clients[p].pc = "inserted"
  /\ table' = table \cup {Row(clients[p].sno, clients[p].user)}
  /\ writer' = IF writer = p THEN 0 ELSE writer
  /\ At(p, "done", clients[p].user, clients[p].sno)
  /\ UNCHANGED <<session, req, resp>>

\* db.session.commit() when another transaction holds the lock until the
\* engine's busy timeout expires: the commit raises, nothing is inserted.
CBusy(p) ==
  /\ clients[p].pc = "validated"
  /\ ~WriteLockFree(writer)
  /\ At(p, "failed", clients[p].user, 0)
  /\ UNCHANGED <<table, session, req, resp, writer>>

\* The response is sent; the client may submit again.
CReturn(p) ==
  /\ clients[p].pc \in {"rejected", "done", "failed"}
  /\ clients' = [clients EXCEPT ![p] = Idle]
  /\ UNCHANGED <<table, session, req, resp, writer>>

NextConc ==
  \E p \in Clients :
    CValidate(p) \/ CInsert(p) \/ CCommit(p) \/ CBusy(p) \/ CReturn(p)

SpecConc == Init /\ [][NextConc]_vars

(***************************************************************************)
(* The field constraints of the data model, in the claims' words           *)
(***************************************************************************)

OnlyLettersAndSpaces(s) == AllIn(s, Letters \cup {" "})

NameConstraint(s) ==
  Len(s) >= MinNameLen /\ Len(s) <= MaxNameLen /\ OnlyLettersAndSpaces(s)

EmailConstraint(s) == Email(s) /\ Len(s) <= MaxEmailLen

AllValid(form) ==
  /\ NameConstraint(form.fname)
  /\ NameConstraint(form.lname)
  /\ EmailConstraint(form.email)

HasLetter(s) == \E i \in 1..Len(s) : s[i] \in Letters

\* The submitted forms whose fields satisfy all constraints (tabulated).
ValidForms == {f : f \in {g \in Forms : AllValid(g)}}

HasMarkup(s) == HasChar(s, "<") \/ HasChar(s, ">")

SameFields(r, user) ==
  r.fname = user.fname /\ r.lname = user.lname /\ r.email = user.email

\* The submitted fields trimmed, then markup-escaped (tabulated).
Sanitized ==
  [f \in Forms |-> [fname |-> Escape(Strip(f.fname)),
                    lname |-> Escape(Strip(f.lname)),
                    email |-> Escape(Strip(f.email))]] @@ <<>>

\* The step answers a POST to "/" while the storage is available.
Submitted == req'.op = "index" /\ req'.method = "POST" /\ req'.up

\* The step appended exactly one record, holding the sanitized values of
\* the submitted fields, and list() shows it.
AppendedSanitized ==
  /\ resp'.status = 302
  /\ table \subseteq table'
  /\ Cardinality(table' \ table) = 1
  /\ \A r \in table' \ table :
       /\ SameFields(r, Sanitized[req'.form])
       /\ \E i \in 1..Len(QueryAll(table')) : QueryAll(table')[i] = r

\* C1 as stated: every submission whose fields all satisfy the constraints
\* of the data model (names of letters and spaces, 2 to 100 characters;
\* well-formed email of at most 200 characters) succeeds and appends exactly
\* one record with the sanitized values.
C1_ValidAlwaysStored ==
  [][(Submitted /\ req'.form \in ValidForms) => AppendedSanitized]_vars

\* C1, amended: every submission whose fields are all valid and whose first
\* and last name each hold at least one letter succeeds: exactly one record
\* is appended, with the trimmed, then escaped values, and list() shows it.
C1_ValidNonBlankStored ==
  [][(Submitted /\ req'.form \in ValidForms /\ HasLetter(req'.form.fname)
        /\ HasLetter(req'.form.lname)) => AppendedSanitized]_vars

\* A valid submission whose first name was trimmed has been stored.
C1_Witness ==
  /\ req.op = "index" /\ req.method = "POST" /\ req.up
  /\ req.form \in ValidForms
  /\ resp.status = 302
  /\ Strip(req.form.fname) # req.form.fname
  /\ \E r \in table : SameFields(r, Sanitized[req.form])

Violates(form) ==
  \/ form.fname = <<>> \/ form.lname = <<>> \/ form.email = <<>>
  \/ ~NameConstraint(form.fname)
  \/ ~NameConstraint(form.lname)
  \/ ~EmailConstraint(form.email)

\* C2: a submission in which at least one field is missing or violates its
\* constraint is rejected and leaves the stored records as they were.
C2_InvalidRejected ==
  [][(req'.op = "index" /\ req'.method = "POST" /\ Violates(req'.form))
       => (table' = table /\ resp'.status # 302)]_vars

\* C3: every stored record satisfies the field constraints of the data
\* model, checked on the values as persisted.
C3_StoredSatisfyConstraints ==
  \A r \in table :
    /\ NameConstraint(r.fname)
    /\ NameConstraint(r.lname)
    /\ EmailConstraint(r.email)

\* C4: no stored field, and no text of the lookup's answer that comes from
\* submitted input, holds a raw "<" or ">".
C4_NoRawMarkup ==
  /\ \A r \in table :
       ~HasMarkup(r.fname) /\ ~HasMarkup(r.lname) /\ ~HasMarkup(r.email)
  /\ (resp.op = "search" /\ resp.status = 200) =>
       \A i \in 1..Len(resp.out) :
         resp.out[i].src = "data" => ~HasMarkup(resp.out[i].text)

\* A lookup for a name carrying a markup tag was answered while the table
\* holds a value stored in escaped form.
C4_Witness ==
  /\ req.op = "search" /\ HasMarkup(req.name)
  /\ resp.status = 200
  /\ \E r \in table : HasChar(r.email, ";")

Matches == {r \in table : r.fname = req.name}

\* C5: the lookup answers with exactly the stored records whose first name
\* equals the name asked for, one line each, never with an error, and with
\* "No records found" when there is none.
C5_LookupExact ==
  (req.op = "search" /\ req.up) =>
    /\ resp.status = 200
    /\ ~resp.traceback
    /\ Matches = {} => resp.out = NoRecordsFound
    /\ Matches # {} =>
         /\ Len(resp.out) = 6 * Cardinality(Matches)
         /\ \A r \in Matches : \E k \in 0..(Cardinality(Matches) - 1) :
              /\ resp.out[6 * k + 1].text = r.fname
              /\ resp.out[6 * k + 3].text = r.lname
              /\ resp.out[6 * k + 5].text = r.email
         /\ \A k \in 0..(Cardinality(Matches) - 1) : \E r \in Matches :
              /\ resp.out[6 * k + 1].text = r.fname
              /\ resp.out[6 * k + 3].text = r.lname
              /\ resp.out[6 * k + 5].text = r.email

\* A lookup found a record while other records are stored too.
C5_Witness ==
  /\ req.op = "search" /\ req.up
  /\ Matches # {}
  /\ table \ Matches # {}

C7_AppendOnly ==
  [][/\ table \subseteq table'
     /\ \A r \in table : \A q \in table' : q.sno = r.sno => q = r]_vars

\* A record was stored while the table already held one with the same
\* email.
C7_Witness ==
  /\ req.op = "index" /\ resp.status = 302
  /\ \E r, q \in table : r.sno < q.sno /\ r.email = q.email

\* C9: the table changes only by the single row a successful POST to "/"
\* inserts; list(), the lookup and a page load by GET change nothing.
C9_OnlySubmitInserts ==
  [][table' # table =>
       /\ req'.op = "index" /\ req'.method = "POST"
       /\ resp'.status = 302
       /\ table \subseteq table'
       /\ Cardinality(table' \ table) = 1]_vars

\* A page load by GET that carried form data listed the stored records and
\* stored nothing.
C9_Witness ==
  /\ req.op = "index" /\ req.method = "GET" /\ req.form = OkForm
  /\ resp.status = 200
  /\ table # {}
  /\ Len(resp.allpeople) = Cardinality(table)

\* C10: a request that fails unexpectedly is answered with the static
\* failure page and without a traceback.
C10_GenericFailurePage ==
  (req.op \in {"index", "search"} /\ ~req.up) =>
    (resp.body = "500.html" /\ ~resp.traceback)

DoneClients == {p \in Clients : clients[p].pc = "done"}

\* C8: under any interleaving, stored identifiers are pairwise distinct,
\* every committed submission's record is in the table, and two committed
\* submissions never share an identifier.
C8_ConcurrentDistinctIds ==
  /\ \A r, q \in table : r # q => r.sno # q.sno
  /\ \A p \in DoneClients : Row(clients[p].sno, clients[p].user) \in table
  /\ \A p, q \in DoneClients : p # q => clients[p].sno # clients[q].sno

\* Two clients submitted at the same time and both have committed.
C8_Witness ==
  /\ Cardinality(DoneClients) >= 2
  /\ Cardinality(table) >= 2

====
